---------------------------- MODULE Spec2Model ----------------------------
(***************************************************************************)
(* Model of aptos-vm's WriteOpConverter                                    *)
(* (aptos-move/aptos-vm/src/move_vm_ext/write_op_converter.rs).            *)
(*                                                                         *)
(* A converter is constructed over a resolver (reading the on-chain clock  *)
(* once), then converts abstract storage effects into write ops.  The      *)
(* resolver is an external collaborator: the answers it gives during a     *)
(* call are drawn from bounded sets and recorded (`fetched`, `call`).      *)
(*                                                                         *)
(* Spec is one converter at a time, with batches over both tags.           *)
(* SessionsSpec is several converters, one per session, interleaving       *)
(* their calls while the on-chain clock changes, with smaller batches.     *)
(*                                                                         *)
(* u64 is scaled down to WordBits bits; usize lengths (payload lengths,    *)
(* serialized tag sizes) are bounded by isize::MAX, as Rust allocations    *)
(* are.                                                                    *)
(***************************************************************************)
EXTENDS Integers, Sequences, FiniteSets, TLC

(* ------------------------------ bounds -------------------------------- *)

\* Width of the model's u64.
WordBits == 2
\* Longest payload given to a conversion.
MaxPayloadLen == 1
\* Latest time the on-chain clock reads.
MaxClock == 2

RECURSIVE Pow2(_)
Pow2(n) == IF n = 0 THEN 1 ELSE 2 * Pow2(n - 1)

U64Modulus == Pow2(WordBits)
U64Max == U64Modulus - 1
\* isize::MAX: no allocation (and so no usize length) exceeds it.
ISizeMax == Pow2(WordBits - 1) - 1

Min(a, b) == IF a < b THEN a ELSE b

(* ------------------------------ values -------------------------------- *)

\* Option<T>
None == <<>>
Some(x) == <<x>>

\* Result<T, E>, and a panic of the thread running the call.
Ok(v) == [kind |-> "Ok", val |-> v]
Err(code) == [kind |-> "Err", code |-> code]
Panic == [kind |-> "Panic"]
\* A failed resolver lookup (an anyhow::Error: its content is never read).
LookupErr == [kind |-> "Err"]

STORAGE_ERROR == "STORAGE_ERROR"
SPECULATIVE_EXECUTION_ABORT_ERROR == "SPECULATIVE_EXECUTION_ABORT_ERROR"
UNKNOWN_INVARIANT_VIOLATION_ERROR == "UNKNOWN_INVARIANT_VIOLATION_ERROR"
VALUE_SERIALIZATION_ERROR == "VALUE_SERIALIZATION_ERROR"

\* StateValueMetadata::new(deposit, &creation_time)
StateValueMetadata(deposit, creation_time_usecs) ==
    [deposit |-> deposit, creation_time_usecs |-> creation_time_usecs]

\* The metadata the tests put on existing slots: raw_metadata(100).
raw_metadata(v) == StateValueMetadata(v, v)

\* The payloads of the tests: vec![1], vec![2, 2], ...; Bytes::new() is <<>>.
Payload(n) == [i \in 1..n |-> n]
Payloads == {Payload(n) : n \in 0..Min(MaxPayloadLen, ISizeMax)}

\* Option<Arc<MoveTypeLayout>>
Layouts == {None, Some("layout")}

\* MoveStorageOp<T>
OpNew(data) == [k |-> "New", data |-> data]
OpModify(data) == [k |-> "Modify", data |-> data]
OpDelete == [k |-> "Delete"]

\* MoveStorageOp<Bytes>
BytesOps == {OpNew(d) : d \in Payloads} \cup {OpModify(d) : d \in Payloads} \cup {OpDelete}
\* MoveStorageOp<BytesWithResourceLayout>
LayoutOps ==
    {OpNew(<<d, l>>) : d \in Payloads, l \in Layouts}
        \cup {OpModify(<<d, l>>) : d \in Payloads, l \in Layouts}
        \cup {OpDelete}

\* WriteOp
Creation(data) == [op |-> "Creation", data |-> data]
CreationWithMetadata(data, metadata) ==
    [op |-> "CreationWithMetadata", data |-> data, metadata |-> metadata]
Modification(data) == [op |-> "Modification", data |-> data]
ModificationWithMetadata(data, metadata) ==
    [op |-> "ModificationWithMetadata", data |-> data, metadata |-> metadata]
Deletion == [op |-> "Deletion"]
DeletionWithMetadata(metadata) == [op |-> "DeletionWithMetadata", metadata |-> metadata]

\* The resolver's answers to get_*_state_value_metadata:
\* anyhow::Result<Option<StateValueMetadataKind>>, StateValueMetadataKind being
\* Option<StateValueMetadata>.
MetadataResults ==
    {LookupErr, Ok(None), Ok(Some(None)), Ok(Some(Some(raw_metadata(100))))}

\* The resolver's answers to resource_group_size and resource_size_in_group.
SizeResults == {LookupErr} \cup {Ok(n) : n \in 0..U64Max}

\* The resolver's answers to CurrentTimeMicroseconds::fetch_config(remote):
\* None when the on-chain clock is not configured.
Clocks == {None} \cup {Some(t) : t \in 1..MaxClock}

(* ------------------------------- state -------------------------------- *)

VARIABLES
    pc,                 \* "init": no converter; "ready"; "returned": a call returned
    enabled,            \* the is_storage_slot_metadata_enabled given to new()
    fetched,            \* None, or Some(the clock new() read from the resolver)
    new_slot_metadata,  \* WriteOpConverter.new_slot_metadata
    call,               \* the last call: entry point, arguments, resolver answers
    result,             \* what the last call returned
    queried,            \* the tags the last call asked resource_size_in_group for
    trace,              \* the last call's fold: each tag reached, with cur_size there
    post_size,          \* Some(the size the last call's fold ended with), or None
    clock,              \* SessionsSpec: the on-chain clock the resolver exposes now
    converters          \* SessionsSpec: the converter of each session

vars == <<pc, enabled, fetched, new_slot_metadata, call, result, queried, trace,
          post_size, clock, converters>>

NoCall == [fn |-> "none"]
NoResult == [kind |-> "None"]

(* ------------------------- WriteOpConverter::new ---------------------- *)

\* NewSlotMetadata with the arguments of StateValueMetadata::new swapped.
NewSlotMetadata_swapped(is_storage_slot_metadata_enabled, current_time) ==
    IF is_storage_slot_metadata_enabled /\ current_time # None
    THEN Some(StateValueMetadata(current_time[1], 0))
    ELSE None

\* NewSlotMetadata stamping time 0 when the clock is not configured.
NewSlotMetadata_default_clock(is_storage_slot_metadata_enabled, current_time) ==
    IF is_storage_slot_metadata_enabled
    THEN Some(StateValueMetadata(0, IF current_time = None THEN 0 ELSE current_time[1]))
    ELSE None

\* The new_slot_metadata new() computes.
NewSlotMetadata(is_storage_slot_metadata_enabled, current_time) ==
    IF is_storage_slot_metadata_enabled /\ current_time # None
    THEN Some(StateValueMetadata(0, current_time[1]))
    ELSE None

(* ----------------------- WriteOpConverter::convert -------------------- *)

\* is_contradiction without the (Some(_), New(_)) arm.
is_contradiction_no_recreate(maybe_existing_metadata, k) ==
    maybe_existing_metadata = None /\ k \in {"Modify", "Delete"}

\* The first two arms of the match: the effect contradicts the slot's existence.
is_contradiction(maybe_existing_metadata, k) ==
    \/ maybe_existing_metadata = None /\ k \in {"Modify", "Delete"}
    \/ maybe_existing_metadata # None /\ k = "New"

\* convert_new looking at the compatibility switch before the new-slot metadata.
convert_new_legacy_first(slot_metadata, data, legacy) ==
    IF legacy THEN Modification(data)
    ELSE IF slot_metadata = None THEN Creation(data)
    ELSE CreationWithMetadata(data, slot_metadata[1])

\* convert_new ignoring the compatibility switch.
convert_new_no_legacy(slot_metadata, data, legacy) ==
    IF slot_metadata = None THEN Creation(data)
    ELSE CreationWithMetadata(data, slot_metadata[1])

\* (None, New((data, _)))
convert_new(slot_metadata, data, legacy) ==
    IF slot_metadata = None
    THEN IF legacy THEN Modification(data) ELSE Creation(data)
    ELSE CreationWithMetadata(data, slot_metadata[1])

\* convert_modify dropping the slot's metadata.
convert_modify_no_inherit(existing_metadata, data) == Modification(data)

\* (Some(existing_metadata), Modify((data, _)))
convert_modify(existing_metadata, data) ==
    IF existing_metadata = None THEN Modification(data)
    ELSE ModificationWithMetadata(data, existing_metadata[1])

\* convert_delete dropping the slot's metadata.
convert_delete_no_inherit(existing_metadata) == Deletion

\* (Some(existing_metadata), Delete)
convert_delete(existing_metadata) ==
    IF existing_metadata = None THEN Deletion
    ELSE DeletionWithMetadata(existing_metadata[1])

\* convert without the contradiction arms: an effect on a slot it contradicts is
\* taken as the effect that fits (New for Modify, Modify for New, Deletion).
convert_upsert(slot_metadata, state_value_metadata_result, move_storage_op, legacy) ==
    IF state_value_metadata_result.kind # "Ok" THEN Err(STORAGE_ERROR)
    ELSE
      LET maybe_existing_metadata == state_value_metadata_result.val
          k == move_storage_op.k
      IN  IF k = "Delete"
          THEN Ok(IF maybe_existing_metadata = None THEN Deletion
                  ELSE convert_delete(maybe_existing_metadata[1]))
          ELSE IF maybe_existing_metadata = None
          THEN Ok(convert_new(slot_metadata, move_storage_op.data[1], legacy))
          ELSE Ok(convert_modify(maybe_existing_metadata[1], move_storage_op.data[1]))

\* convert reporting a failed lookup as convert_aggregator_modification does.
convert_lookup_abort(slot_metadata, state_value_metadata_result, move_storage_op, legacy) ==
    IF state_value_metadata_result.kind # "Ok" THEN Err(SPECULATIVE_EXECUTION_ABORT_ERROR)
    ELSE
      LET maybe_existing_metadata == state_value_metadata_result.val
          k == move_storage_op.k
      IN  IF is_contradiction(maybe_existing_metadata, k)
          THEN Err(SPECULATIVE_EXECUTION_ABORT_ERROR)
          ELSE IF maybe_existing_metadata = None
          THEN Ok(convert_new(slot_metadata, move_storage_op.data[1], legacy))
          ELSE IF k = "Modify"
          THEN Ok(convert_modify(maybe_existing_metadata[1], move_storage_op.data[1]))
          ELSE Ok(convert_delete(maybe_existing_metadata[1]))

\* WriteOpConverter::convert
convert(slot_metadata, state_value_metadata_result, move_storage_op, legacy) ==
    IF state_value_metadata_result.kind # "Ok" THEN Err(STORAGE_ERROR)
    ELSE
      LET maybe_existing_metadata == state_value_metadata_result.val
          k == move_storage_op.k
      IN  IF is_contradiction(maybe_existing_metadata, k)
          THEN Err(SPECULATIVE_EXECUTION_ABORT_ERROR)
          ELSE IF maybe_existing_metadata = None
          THEN Ok(convert_new(slot_metadata, move_storage_op.data[1], legacy))
          ELSE IF k = "Modify"
          THEN Ok(convert_modify(maybe_existing_metadata[1], move_storage_op.data[1]))
          ELSE Ok(convert_delete(maybe_existing_metadata[1]))

\* convert_impl!: MoveStorageOp<Bytes> becomes MoveStorageOp<(Bytes, None)>.
convert_impl(slot_metadata, metadata_result, move_storage_op, legacy) ==
    LET op == IF move_storage_op.k = "Delete" THEN OpDelete
              ELSE [k |-> move_storage_op.k, data |-> <<move_storage_op.data, None>>]
    IN  convert(slot_metadata, metadata_result, op, legacy)

\* convert_resource: the write op paired with the effect's layout.
convert_resource(slot_metadata, metadata_result, move_storage_op, legacy) ==
    LET res == convert(slot_metadata, metadata_result, move_storage_op, legacy)
        type_layout == IF move_storage_op.k = "Delete" THEN None
                       ELSE move_storage_op.data[2]
    IN  IF res.kind = "Ok" THEN Ok(<<res.val, type_layout>>) ELSE res


(* ---------------- WriteOpConverter::convert_resource_group_v1 --------- *)

\* The struct tags of the tests (mock_tag_0, mock_tag_1), in their BTreeMap order.
Tags == {1, 2}

\* bcs::serialized_size(&tag) as u64, for a tag that serializes.
TagSize(tag) == Min(tag, ISizeMax)

\* group_changes: BTreeMap<StructTag, MoveStorageOp<BytesWithResourceLayout>>
Batches == UNION {[S -> LayoutOps] : S \in SUBSET Tags}

\* BTreeMap::into_iter: the keys in ascending order.
RECURSIVE into_iter(_)
into_iter(S) ==
    IF S = {} THEN <<>>
    ELSE LET least == CHOOSE t \in S : \A u \in S : t <= u
         IN  <<least>> \o into_iter(S \ {least})

\* u64::checked_sub, u64::checked_add
checked_sub(a, b) == IF b > a THEN None ELSE Some(a - b)
checked_add(a, b) == IF a + b > U64Max THEN None ELSE Some(a + b)

\* The `+` of u64: on overflow it panics in a build with overflow checks and
\* wraps in a build without them.
unchecked_add(a, b, wrapping) ==
    IF a + b <= U64Max THEN Ok(a + b)
    ELSE IF wrapping THEN Ok((a + b) % U64Modulus)
    ELSE Panic

\* The size subtracted for a tag that is not New: the resolver's answer + tag_size.
old_size(size_result, tag_size, wrapping) ==
    IF size_result.kind # "Ok" THEN Err(UNKNOWN_INVARIANT_VIOLATION_ERROR)
    ELSE unchecked_add(size_result.val, tag_size, wrapping)

\* The size added for a New or Modify tag: data.len() as u64 + tag_size.
added_size(data, tag_size, wrapping) == unchecked_add(Len(data), tag_size, wrapping)

\* legacy_op recording a New tag as a modification.
legacy_op_new_as_modify(current_op) ==
    IF current_op.k = "Delete" THEN <<Deletion, None>>
    ELSE <<Modification(current_op.data[1]), current_op.data[2]>>

\* The per-tag op recorded in inner_ops.
legacy_op(current_op) ==
    IF current_op.k = "Delete" THEN <<Deletion, None>>
    ELSE IF current_op.k = "Modify"
    THEN <<Modification(current_op.data[1]), current_op.data[2]>>
    ELSE <<Creation(current_op.data[1]), current_op.data[2]>>

\* fold_step asking the resolver for the previous size of every tag it reaches.
fold_step_query_all(acc, tag, current_op, remote, wrapping) ==
    IF acc.res.kind # "Ok" THEN acc
    ELSE
      LET cur_size == acc.res.val
          reached == Append(acc.trace, [tag |-> tag, cur_size |-> cur_size])
      IN  IF ~remote.tag_serializes[tag]
          THEN [acc EXCEPT !.res = Err(VALUE_SERIALIZATION_ERROR), !.trace = reached]
          ELSE
            LET tag_size == TagSize(tag)
                is_new == current_op.k = "New"
                old == IF is_new THEN Ok(0)
                       ELSE old_size(remote.resource_size_in_group[tag], tag_size,
                                     wrapping)
                subtracted ==
                    IF is_new \/ old.kind # "Ok" THEN old
                    ELSE LET d == checked_sub(cur_size, old.val)
                         IN  IF d = None THEN Err(SPECULATIVE_EXECUTION_ABORT_ERROR)
                             ELSE Ok(d[1])
                after_sub == IF is_new THEN Ok(cur_size) ELSE subtracted
                new_size ==
                    IF after_sub.kind # "Ok" \/ current_op.k = "Delete" THEN after_sub
                    ELSE LET add == added_size(current_op.data[1], tag_size, wrapping)
                         IN  IF add.kind # "Ok" THEN add
                             ELSE LET sum == checked_add(after_sub.val, add.val)
                                  IN  IF sum = None
                                      THEN Err(SPECULATIVE_EXECUTION_ABORT_ERROR)
                                      ELSE Ok(sum[1])
            IN  [res |-> new_size,
                 inner_ops |-> IF new_size.kind = "Ok"
                               THEN (tag :> legacy_op(current_op)) @@ acc.inner_ops
                               ELSE acc.inner_ops,
                 queried |-> Append(acc.queried, tag),
                 trace |-> reached]

\* One step of the try_fold closure.  acc.res is Ok(cur_size) while the fold runs.
fold_step(acc, tag, current_op, remote, wrapping) ==
    IF acc.res.kind # "Ok" THEN acc
    ELSE
      LET cur_size == acc.res.val
          reached == Append(acc.trace, [tag |-> tag, cur_size |-> cur_size])
      IN  IF ~remote.tag_serializes[tag]
          THEN [acc EXCEPT !.res = Err(VALUE_SERIALIZATION_ERROR), !.trace = reached]
          ELSE
            LET tag_size == TagSize(tag)
                is_new == current_op.k = "New"
                old == IF is_new THEN Ok(0)
                       ELSE old_size(remote.resource_size_in_group[tag], tag_size,
                                     wrapping)
                subtracted ==
                    IF is_new \/ old.kind # "Ok" THEN old
                    ELSE LET d == checked_sub(cur_size, old.val)
                         IN  IF d = None THEN Err(SPECULATIVE_EXECUTION_ABORT_ERROR)
                             ELSE Ok(d[1])
                after_sub == IF is_new THEN Ok(cur_size) ELSE subtracted
                new_size ==
                    IF after_sub.kind # "Ok" \/ current_op.k = "Delete" THEN after_sub
                    ELSE LET add == added_size(current_op.data[1], tag_size, wrapping)
                         IN  IF add.kind # "Ok" THEN add
                             ELSE LET sum == checked_add(after_sub.val, add.val)
                                  IN  IF sum = None
                                      THEN Err(SPECULATIVE_EXECUTION_ABORT_ERROR)
                                      ELSE Ok(sum[1])
            IN  [res |-> new_size,
                 inner_ops |-> IF new_size.kind = "Ok"
                               THEN (tag :> legacy_op(current_op)) @@ acc.inner_ops
                               ELSE acc.inner_ops,
                 queried |-> IF is_new THEN acc.queried ELSE Append(acc.queried, tag),
                 trace |-> reached]

RECURSIVE try_fold(_, _, _, _, _)
try_fold(acc, tags, group_changes, remote, wrapping) ==
    IF tags = <<>> THEN acc
    ELSE try_fold(fold_step(acc, Head(tags), group_changes[Head(tags)], remote, wrapping),
                  Tail(tags), group_changes, remote, wrapping)

\* metadata_op with the two sizes taken for each other.
metadata_op_swapped(pre_group_size, post_group_size) ==
    IF pre_group_size = 0 THEN OpDelete
    ELSE IF post_group_size = 0 THEN OpNew(<<<<>>, None>>)
    ELSE OpModify(<<<<>>, None>>)

\* metadata_op testing the pre-size first: a group of size 0 is always new.
metadata_op_pre_first(pre_group_size, post_group_size) ==
    IF pre_group_size = 0 THEN OpNew(<<<<>>, None>>)
    ELSE IF post_group_size = 0 THEN OpDelete
    ELSE OpModify(<<<<>>, None>>)

\* The combined op that stands for the group's slot.
metadata_op(pre_group_size, post_group_size) ==
    IF post_group_size = 0 THEN OpDelete
    ELSE IF pre_group_size = 0 THEN OpNew(<<<<>>, None>>)
    ELSE OpModify(<<<<>>, None>>)

\* GroupWrite::new(metadata_op, group_size, inner_ops): the arguments as given.
GroupWrite(op, group_size, inner_ops) ==
    [metadata_op |-> op, group_size |-> group_size, inner_ops |-> inner_ops]

\* The result of the call, the resource_size_in_group queries it issued, the
\* steps of its fold and the size the fold ended with.
convert_resource_group_v1(slot_metadata, remote, group_changes, wrapping) ==
    IF remote.resource_group_size.kind # "Ok"
    THEN [result |-> Err(UNKNOWN_INVARIANT_VIOLATION_ERROR), queried |-> <<>>,
          trace |-> <<>>, post_size |-> None]
    ELSE
      LET pre_group_size == remote.resource_group_size.val
          folded == try_fold([res |-> Ok(pre_group_size), inner_ops |-> <<>>,
                              queried |-> <<>>, trace |-> <<>>],
                             into_iter(DOMAIN group_changes), group_changes, remote,
                             wrapping)
          op == convert(slot_metadata, remote.metadata,
                        metadata_op(pre_group_size, folded.res.val), FALSE)
      IN  [result |-> IF folded.res.kind # "Ok" THEN folded.res
                      ELSE IF op.kind # "Ok" THEN op
                      ELSE Ok(GroupWrite(op.val, folded.res.val, folded.inner_ops)),
           queried |-> folded.queried,
           trace |-> folded.trace,
           post_size |-> IF folded.res.kind = "Ok" THEN Some(folded.res.val) ELSE None]

\* What the call can do, over the builds: with overflow checks a `+` that
\* overflows panics, without them it wraps and the call goes on.  Where the
\* checked build does not panic no `+` overflowed, and the builds agree.
Outcomes(slot_metadata, remote, group_changes) ==
    LET checked == convert_resource_group_v1(slot_metadata, remote, group_changes, FALSE)
    IN  IF checked.result = Panic
        THEN {checked,
              convert_resource_group_v1(slot_metadata, remote, group_changes, TRUE)}
        ELSE {checked}

\* The tags whose previous size the resolver may be asked for.
Queriable(group_changes, tag_serializes) ==
    {t \in DOMAIN group_changes : group_changes[t].k # "New" /\ tag_serializes[t]}

(* ------------ WriteOpConverter::convert_aggregator_modification ------- *)

\* u128, twice as wide as u64: the values of an aggregator.
U128Max == U64Modulus * U64Modulus - 1

\* aptos_aggregator::delta_change_set::serialize: the fixed-width encoding of the
\* integer, least significant half first.
serialize(value) == <<value % U64Modulus, value \div U64Modulus>>

\* convert_aggregator_modification creating a slot as convert does.
convert_aggregator_modification_as_convert(slot_metadata, metadata_result, value) ==
    IF metadata_result.kind # "Ok" THEN Err(SPECULATIVE_EXECUTION_ABORT_ERROR)
    ELSE
      LET maybe_existing_metadata == metadata_result.val
          data == serialize(value)
      IN  Ok(IF maybe_existing_metadata = None
             THEN IF slot_metadata = None THEN Creation(data)
                  ELSE CreationWithMetadata(data, slot_metadata[1])
             ELSE IF maybe_existing_metadata[1] = None THEN Modification(data)
             ELSE ModificationWithMetadata(data, maybe_existing_metadata[1][1]))

\* convert_aggregator_modification reporting a failed lookup as convert does.
convert_aggregator_modification_storage(slot_metadata, metadata_result, value) ==
    IF metadata_result.kind # "Ok" THEN Err(STORAGE_ERROR)
    ELSE
      LET maybe_existing_metadata == metadata_result.val
          data == serialize(value)
      IN  Ok(IF maybe_existing_metadata = None
             THEN IF slot_metadata = None THEN Modification(data)
                  ELSE CreationWithMetadata(data, slot_metadata[1])
             ELSE IF maybe_existing_metadata[1] = None THEN Modification(data)
             ELSE ModificationWithMetadata(data, maybe_existing_metadata[1][1]))

convert_aggregator_modification(slot_metadata, metadata_result, value) ==
    IF metadata_result.kind # "Ok" THEN Err(SPECULATIVE_EXECUTION_ABORT_ERROR)
    ELSE
      LET maybe_existing_metadata == metadata_result.val
          data == serialize(value)
      IN  Ok(IF maybe_existing_metadata = None
             THEN IF slot_metadata = None THEN Modification(data)
                  ELSE CreationWithMetadata(data, slot_metadata[1])
             ELSE IF maybe_existing_metadata[1] = None THEN Modification(data)
             ELSE ModificationWithMetadata(data, maybe_existing_metadata[1][1]))

(* ------------------------------ actions ------------------------------- *)

Init ==
    /\ pc = "init"
    /\ enabled = FALSE
    /\ fetched = None
    /\ new_slot_metadata = None
    /\ call = NoCall
    /\ result = NoResult
    /\ queried = <<>>
    /\ trace = <<>>
    /\ post_size = None
    /\ clock = None
    /\ converters = <<>>

\* WriteOpConverter::new(remote, is_storage_slot_metadata_enabled)
New ==
    /\ pc \in {"init", "ready"}
    /\ \E is_storage_slot_metadata_enabled \in BOOLEAN, current_time \in Clocks :
          /\ enabled' = is_storage_slot_metadata_enabled
          /\ fetched' = IF is_storage_slot_metadata_enabled THEN Some(current_time)
                        ELSE None
          /\ new_slot_metadata' =
                 NewSlotMetadata(is_storage_slot_metadata_enabled, current_time)
    /\ pc' = "ready"
    /\ call' = NoCall
    /\ result' = NoResult
    /\ queried' = <<>>
    /\ trace' = <<>>
    /\ post_size' = None
    /\ UNCHANGED <<clock, converters>>

ConvertModule ==
    /\ pc = "ready"
    /\ \E op \in BytesOps, legacy \in BOOLEAN, md \in MetadataResults :
          /\ call' = [fn |-> "convert_module", op |-> op, legacy |-> legacy,
                      metadata_result |-> md]
          /\ result' = convert_impl(new_slot_metadata, md, op, legacy)
    /\ pc' = "returned"
    /\ queried' = <<>>
    /\ trace' = <<>>
    /\ post_size' = None
    /\ UNCHANGED <<enabled, fetched, new_slot_metadata, clock, converters>>

ConvertAggregator ==
    /\ pc = "ready"
    /\ \E op \in BytesOps, legacy \in BOOLEAN, md \in MetadataResults :
          /\ call' = [fn |-> "convert_aggregator", op |-> op, legacy |-> legacy,
                      metadata_result |-> md]
          /\ result' = convert_impl(new_slot_metadata, md, op, legacy)
    /\ pc' = "returned"
    /\ queried' = <<>>
    /\ trace' = <<>>
    /\ post_size' = None
    /\ UNCHANGED <<enabled, fetched, new_slot_metadata, clock, converters>>

ConvertResource ==
    /\ pc = "ready"
    /\ \E op \in LayoutOps, legacy \in BOOLEAN, md \in MetadataResults :
          /\ call' = [fn |-> "convert_resource", op |-> op, legacy |-> legacy,
                      metadata_result |-> md]
          /\ result' = convert_resource(new_slot_metadata, md, op, legacy)
    /\ pc' = "returned"
    /\ queried' = <<>>
    /\ trace' = <<>>
    /\ post_size' = None
    /\ UNCHANGED <<enabled, fetched, new_slot_metadata, clock, converters>>

ConvertResourceGroupV1 ==
    /\ pc = "ready"
    /\ \E group_changes \in Batches, md \in MetadataResults, gs \in SizeResults :
       \E ser \in [DOMAIN group_changes -> BOOLEAN] :
       \E sz \in [Queriable(group_changes, ser) -> SizeResults] :
          LET remote == [metadata |-> md, resource_group_size |-> gs,
                         tag_serializes |-> ser, resource_size_in_group |-> sz]
          IN  \E out \in Outcomes(new_slot_metadata, remote, group_changes) :
                 /\ call' = [fn |-> "convert_resource_group_v1",
                             group_changes |-> group_changes, remote |-> remote]
                 /\ result' = out.result
                 /\ queried' = out.queried
                 /\ trace' = out.trace
                 /\ post_size' = out.post_size
    /\ pc' = "returned"
    /\ UNCHANGED <<enabled, fetched, new_slot_metadata, clock, converters>>

ConvertAggregatorModification ==
    /\ pc = "ready"
    /\ \E value \in 0..U128Max, md \in MetadataResults :
          /\ call' = [fn |-> "convert_aggregator_modification", value |-> value,
                      metadata_result |-> md]
          /\ result' = convert_aggregator_modification(new_slot_metadata, md, value)
    /\ pc' = "returned"
    /\ queried' = <<>>
    /\ trace' = <<>>
    /\ post_size' = None
    /\ UNCHANGED <<enabled, fetched, new_slot_metadata, clock, converters>>

\* The caller takes the result; the converter converts the next effect.
Return ==
    /\ pc = "returned"
    /\ pc' = "ready"
    /\ call' = NoCall
    /\ result' = NoResult
    /\ queried' = <<>>
    /\ trace' = <<>>
    /\ post_size' = None
    /\ UNCHANGED <<enabled, fetched, new_slot_metadata, clock, converters>>

Next ==
    \/ New
    \/ ConvertModule
    \/ ConvertAggregator
    \/ ConvertResource
    \/ ConvertResourceGroupV1
    \/ ConvertAggregatorModification
    \/ Return

Spec == Init /\ [][Next]_vars

(* ------------------------------ sessions ------------------------------ *)
(* Several converters, one per session (a transaction attempt), each       *)
(* constructed over the resolver while the on-chain clock goes on          *)
(* changing.  Calls are synchronous: they interleave call by call.         *)

\* The sessions whose calls interleave.
Sessions == {1, 2}

\* A session that has not constructed its converter yet.
NoConverter == [built |-> FALSE]

\* The WriteOpConverter new() returns, with what new() was given and read.
Converter(is_storage_slot_metadata_enabled, current_time) ==
    [built |-> TRUE,
     enabled |-> is_storage_slot_metadata_enabled,
     fetched |-> IF is_storage_slot_metadata_enabled THEN Some(current_time) ELSE None,
     new_slot_metadata |-> NewSlotMetadata(is_storage_slot_metadata_enabled,
                                           current_time)]

\* The batches given to the sessions' calls: at most the first tag.
SessionBatches == UNION {[S -> LayoutOps] : S \in {{}, {1}}}

\* The calls of the five entry points, each with the resolver's answers to it.
BytesCalls ==
    {[fn |-> fn, op |-> op, legacy |-> legacy, metadata_result |-> md] :
        fn \in {"convert_module", "convert_aggregator"}, op \in BytesOps,
        legacy \in BOOLEAN, md \in MetadataResults}
ResourceCalls ==
    {[fn |-> "convert_resource", op |-> op, legacy |-> legacy, metadata_result |-> md] :
        op \in LayoutOps, legacy \in BOOLEAN, md \in MetadataResults}
AggregatorCalls ==
    {[fn |-> "convert_aggregator_modification", value |-> value,
      metadata_result |-> md] : value \in 0..U128Max, md \in MetadataResults}
GroupCallsOf(group_changes) ==
    UNION {{[fn |-> "convert_resource_group_v1", group_changes |-> group_changes,
             remote |-> [metadata |-> md, resource_group_size |-> gs,
                         tag_serializes |-> ser, resource_size_in_group |-> sz]] :
               md \in MetadataResults, gs \in SizeResults,
               sz \in [Queriable(group_changes, ser) -> SizeResults]} :
           ser \in [DOMAIN group_changes -> BOOLEAN]}
GroupCalls == UNION {GroupCallsOf(b) : b \in SessionBatches}

\* What a call can return (with the queries and the fold of a group call) on a
\* converter whose new_slot_metadata is slot_metadata.
Run(slot_metadata, c) ==
    LET only(res) == {[result |-> res, queried |-> <<>>, trace |-> <<>>,
                       post_size |-> None]}
    IN  IF c.fn \in {"convert_module", "convert_aggregator"}
        THEN only(convert_impl(slot_metadata, c.metadata_result, c.op, c.legacy))
        ELSE IF c.fn = "convert_resource"
        THEN only(convert_resource(slot_metadata, c.metadata_result, c.op, c.legacy))
        ELSE IF c.fn = "convert_aggregator_modification"
        THEN only(convert_aggregator_modification(slot_metadata, c.metadata_result,
                                                  c.value))
        ELSE Outcomes(slot_metadata, c.remote, c.group_changes)

\* self.new_slot_metadata re-read from the clock at each conversion.
SessionTemplate_reread(s) == NewSlotMetadata(converters[s].enabled, clock)

\* self.new_slot_metadata kept in one place for all sessions: the first built.
SessionTemplate_shared(s) ==
    LET first == CHOOSE t \in Sessions :
                     /\ converters[t].built
                     /\ \A u \in Sessions : converters[u].built => t <= u
    IN  converters[first].new_slot_metadata

\* self.new_slot_metadata, for the converter of session s.
SessionTemplate(s) == converters[s].new_slot_metadata

SessionsInit ==
    /\ pc = "ready"
    /\ clock \in Clocks
    /\ converters = [s \in Sessions |-> NoConverter]
    /\ call = NoCall
    /\ result = NoResult
    /\ queried = <<>>
    /\ trace = <<>>
    /\ post_size = None
    /\ enabled = FALSE
    /\ fetched = None
    /\ new_slot_metadata = None

\* The on-chain clock the resolver exposes changes (or gets configured).
ClockChange ==
    /\ pc = "ready"
    /\ \E t \in Clocks \ {clock} : clock' = t
    /\ UNCHANGED <<pc, converters, call, result, queried, trace, post_size, enabled,
                   fetched, new_slot_metadata>>

\* Session s constructs its converter: WriteOpConverter::new reads the clock.
SessionNew(s) ==
    /\ pc = "ready"
    /\ \E is_storage_slot_metadata_enabled \in BOOLEAN :
          converters' = [converters EXCEPT
                            ![s] = Converter(is_storage_slot_metadata_enabled, clock)]
    /\ UNCHANGED <<pc, clock, call, result, queried, trace, post_size, enabled,
                   fetched, new_slot_metadata>>

\* The converter of session s is given the call c and returns.
SessionCall(s, c) ==
    \E out \in Run(SessionTemplate(s), c) :
        /\ call' = [session |-> s] @@ c
        /\ result' = out.result
        /\ queried' = out.queried
        /\ trace' = out.trace
        /\ post_size' = out.post_size

\* Session s converts an effect, a batch or an aggregator value: &self methods.
SessionConvert(s) ==
    /\ pc = "ready"
    /\ converters[s].built
    /\ \/ \E c \in BytesCalls : SessionCall(s, c)
       \/ \E c \in ResourceCalls : SessionCall(s, c)
       \/ \E c \in AggregatorCalls : SessionCall(s, c)
       \/ \E c \in GroupCalls : SessionCall(s, c)
    /\ pc' = "returned"
    /\ UNCHANGED <<clock, converters, enabled, fetched, new_slot_metadata>>

\* The session takes the result of its call.
SessionReturn ==
    /\ pc = "returned"
    /\ pc' = "ready"
    /\ call' = NoCall
    /\ result' = NoResult
    /\ queried' = <<>>
    /\ trace' = <<>>
    /\ post_size' = None
    /\ UNCHANGED <<clock, converters, enabled, fetched, new_slot_metadata>>

SessionsNext ==
    \/ ClockChange
    \/ \E s \in Sessions : SessionNew(s)
    \/ \E s \in Sessions : SessionConvert(s)
    \/ SessionReturn

SessionsSpec == SessionsInit /\ [][SessionsNext]_vars

(* -------------------- QuorumStoreConfig::sanitize --------------------- *)
(* config/src/config/quorum_store_config.rs.  SanitizeSpec gives sanitize  *)
(* node configs, node types and chain ids; `call` and `result` record the  *)
(* call and what it returned.                                              *)

\* Largest limit of the configs drawn from the ranges.
MaxLimit == 2

\* The limits sanitize reads.
LimitFields ==
    {"sender_max_batch_txns", "sender_max_batch_bytes", "sender_max_total_txns",
     "sender_max_total_bytes", "receiver_max_batch_txns", "receiver_max_batch_bytes",
     "receiver_max_total_txns", "receiver_max_total_bytes"}

\* QuorumStoreConfig::default(), its limits.
DefaultQuorumStoreConfig ==
    [sender_max_batch_txns |-> 250,
     sender_max_batch_bytes |-> 1024 * 1024,
     sender_max_total_txns |-> 2000,
     sender_max_total_bytes |-> 4 * 1024 * 1024,
     receiver_max_batch_txns |-> 250,
     receiver_max_batch_bytes |-> 1024 * 1024,
     receiver_max_total_txns |-> 2000,
     receiver_max_total_bytes |-> 4 * 1024 * 1024]

\* node_config.consensus.quorum_store: the default and configs with small limits.
QuorumStoreConfigs == [LimitFields -> 0..MaxLimit] \cup {DefaultQuorumStoreConfig}

\* NodeType and Option<ChainId> (mainnet, testnet and test appear in the tests).
NodeTypes == {"Validator", "ValidatorFullnode", "PublicFullnode"}
ChainIds == {None, Some("mainnet"), Some("testnet")}

\* Error::ConfigSanitizerFailed(sanitizer_name, "Failed {label}: {a} > {b}")
ConfigSanitizerFailed(label, a, b) ==
    [kind |-> "Err", code |-> "ConfigSanitizerFailed",
     message |-> [label |-> label, left |-> a, right |-> b]]

send_recv_pairs(config) ==
    <<[a |-> config.sender_max_batch_txns, b |-> config.receiver_max_batch_txns,
       label |-> "txns"],
      [a |-> config.sender_max_batch_bytes, b |-> config.receiver_max_batch_bytes,
       label |-> "bytes"],
      [a |-> config.sender_max_total_txns, b |-> config.receiver_max_total_txns,
       label |-> "total_txns"],
      [a |-> config.sender_max_total_bytes, b |-> config.receiver_max_total_bytes,
       label |-> "total_bytes"]>>

batch_total_pairs(config) ==
    <<[a |-> config.sender_max_batch_txns, b |-> config.sender_max_total_txns,
       label |-> "send_txns"],
      [a |-> config.sender_max_batch_bytes, b |-> config.sender_max_total_bytes,
       label |-> "send_bytes"],
      [a |-> config.receiver_max_batch_txns, b |-> config.receiver_max_total_txns,
       label |-> "recv_txns"],
      [a |-> config.receiver_max_batch_bytes, b |-> config.receiver_max_total_bytes,
       label |-> "recv_bytes"]>>

\* The loop of both checks: the first pair with a > b fails the check.
RECURSIVE check_pairs(_)
check_pairs(pairs) ==
    IF pairs = <<>> THEN Ok(<<>>)
    ELSE IF Head(pairs).a > Head(pairs).b
    THEN ConfigSanitizerFailed(Head(pairs).label, Head(pairs).a, Head(pairs).b)
    ELSE check_pairs(Tail(pairs))

sanitize_send_recv_batch_limits(config) == check_pairs(send_recv_pairs(config))
sanitize_batch_total_limits(config) == check_pairs(batch_total_pairs(config))

\* sanitize without its second check.
sanitize_send_recv_only(quorum_store, node_type, chain_id) ==
    sanitize_send_recv_batch_limits(quorum_store)

\* QuorumStoreConfig::sanitize(node_config, _node_type, _chain_id)
sanitize(quorum_store, node_type, chain_id) ==
    LET send_recv == sanitize_send_recv_batch_limits(quorum_store)
    IN  IF send_recv.kind # "Ok" THEN send_recv
        ELSE sanitize_batch_total_limits(quorum_store)

SanitizeInit ==
    /\ pc = "ready"
    /\ call = NoCall
    /\ result = NoResult
    /\ enabled = FALSE
    /\ fetched = None
    /\ new_slot_metadata = None
    /\ queried = <<>>
    /\ trace = <<>>
    /\ post_size = None
    /\ clock = None
    /\ converters = <<>>

\* A node config is sanitized.
Sanitize ==
    /\ pc = "ready"
    /\ \E quorum_store \in QuorumStoreConfigs, node_type \in NodeTypes,
          chain_id \in ChainIds :
          /\ call' = [fn |-> "sanitize", quorum_store |-> quorum_store,
                      node_type |-> node_type, chain_id |-> chain_id]
          /\ result' = sanitize(quorum_store, node_type, chain_id)
    /\ pc' = "returned"
    /\ UNCHANGED <<enabled, fetched, new_slot_metadata, queried, trace, post_size,
                   clock, converters>>

\* The loader takes the verdict; the next config is sanitized.
SanitizeReturn ==
    /\ pc = "returned"
    /\ pc' = "ready"
    /\ call' = NoCall
    /\ result' = NoResult
    /\ UNCHANGED <<enabled, fetched, new_slot_metadata, queried, trace, post_size,
                   clock, converters>>

SanitizeNext == Sanitize \/ SanitizeReturn

SanitizeSpec == SanitizeInit /\ [][SanitizeNext]_vars

(* ---------------------- LurkMerkleProof::verify ----------------------- *)
(* types/src/proof/lurk_definition.rs.  VerifySpec gives verify proofs,    *)
(* root hashes, element hashes and indices.                                *)

\* Longest sibling list of a proof.
MaxSiblings == 2

\* HashValue: *ACCUMULATOR_PLACEHOLDER_HASH and the hashes of the tests' elements.
HashValues == {"ACCUMULATOR_PLACEHOLDER_HASH", "hello", "world"}

\* LurkMerkleProof::new(siblings), for the sibling lists up to MaxSiblings.
Proofs == UNION {[1..n -> HashValues] : n \in 0..MaxSiblings}

\* The element indices of an accumulator a proof of that length can be for.
ElementIndices == 0..(Pow2(MaxSiblings) - 1)

\* LurkMerkleProof::verify: the body is `Ok(())`, the check is commented out.
verify(siblings, expected_root_hash, element_hash, element_index) == Ok(<<>>)

VerifyInit ==
    /\ pc = "ready"
    /\ call = NoCall
    /\ result = NoResult
    /\ enabled = FALSE
    /\ fetched = None
    /\ new_slot_metadata = None
    /\ queried = <<>>
    /\ trace = <<>>
    /\ post_size = None
    /\ clock = None
    /\ converters = <<>>

\* A proof is verified against a root hash.
Verify ==
    /\ pc = "ready"
    /\ \E siblings \in Proofs, expected_root_hash \in HashValues,
          element_hash \in HashValues, element_index \in ElementIndices :
          /\ call' = [fn |-> "verify", siblings |-> siblings,
                      expected_root_hash |-> expected_root_hash,
                      element_hash |-> element_hash, element_index |-> element_index]
          /\ result' = verify(siblings, expected_root_hash, element_hash,
                              element_index)
    /\ pc' = "returned"
    /\ UNCHANGED <<enabled, fetched, new_slot_metadata, queried, trace, post_size,
                   clock, converters>>

\* The caller takes the verdict.
VerifyReturn ==
    /\ pc = "returned"
    /\ pc' = "ready"
    /\ call' = NoCall
    /\ result' = NoResult
    /\ UNCHANGED <<enabled, fetched, new_slot_metadata, queried, trace, post_size,
                   clock, converters>>

VerifyNext == Verify \/ VerifyReturn

VerifySpec == VerifyInit /\ [][VerifyNext]_vars

(* ------------------------------- claims ------------------------------- *)

SlotFns == {"convert_module", "convert_aggregator", "convert_resource"}
WriteOpKinds == {"Creation", "CreationWithMetadata", "Modification",
                 "ModificationWithMetadata", "Deletion", "DeletionWithMetadata"}

\* A call of convert_module, convert_aggregator or convert_resource whose metadata
\* lookup succeeded.
SlotCallLookedUp == call.fn \in SlotFns /\ call.metadata_result.kind = "Ok"
\* What the resolver said of the slot: None, Some(None) or Some(Some(m)).
SlotExisting == call.metadata_result.val
\* The write op such a call returned, and the bytes of the effect it was given.
SlotWriteOp == IF call.fn = "convert_resource" THEN result.val[1] ELSE result.val
SlotData == IF call.fn = "convert_resource" THEN call.op.data[1] ELSE call.op.data

\* C1: with the metadata lookup succeeding, convert_module, convert_aggregator and
\* convert_resource return SPECULATIVE_EXECUTION_ABORT_ERROR exactly when the effect
\* is Modify or Delete on a slot reported non-existent, or New on a slot reported
\* existing (with or without a metadata payload); otherwise they return a write op.
C1_SpeculativeAbortIffContradiction ==
    SlotCallLookedUp =>
        IF \/ SlotExisting = None /\ call.op.k \in {"Modify", "Delete"}
           \/ SlotExisting # None /\ call.op.k = "New"
        THEN result = Err(SPECULATIVE_EXECUTION_ABORT_ERROR)
        ELSE result.kind = "Ok" /\ SlotWriteOp.op \in WriteOpKinds

\* New on an existing slot carrying metadata, with the compatibility switch on and
\* new-slot metadata enabled, was refused.
C1_Witness ==
    /\ SlotCallLookedUp
    /\ call.op.k = "New"
    /\ SlotExisting = Some(Some(raw_metadata(100)))
    /\ call.legacy
    /\ new_slot_metadata # None
    /\ result = Err(SPECULATIVE_EXECUTION_ABORT_ERROR)

\* C2: on a slot reported existing, Modify yields ModificationWithMetadata(data, m)
\* when the slot carries metadata m and Modification(data) when it carries none,
\* Delete yields DeletionWithMetadata(m) or Deletion; m is the resolver's metadata
\* unchanged, whatever the converter's new-slot metadata.
C2_ExistingMetadataInherited ==
    (SlotCallLookedUp /\ SlotExisting # None /\ call.op.k \in {"Modify", "Delete"}) =>
        /\ result.kind = "Ok"
        /\ SlotWriteOp =
              IF call.op.k = "Modify"
              THEN IF SlotExisting[1] = None THEN Modification(SlotData)
                   ELSE ModificationWithMetadata(SlotData, SlotExisting[1][1])
              ELSE IF SlotExisting[1] = None THEN Deletion
                   ELSE DeletionWithMetadata(SlotExisting[1][1])

\* A converter stamping new slots modified a slot that carries metadata: the op
\* carries the slot's metadata, not the converter's.
C2_Witness ==
    /\ SlotCallLookedUp
    /\ call.op.k = "Modify"
    /\ SlotData # <<>>
    /\ SlotExisting = Some(Some(raw_metadata(100)))
    /\ new_slot_metadata # None
    /\ result.kind = "Ok"
    /\ SlotWriteOp = ModificationWithMetadata(SlotData, raw_metadata(100))

\* C3: a converter without new-slot metadata converts New(data) on a slot reported
\* non-existent to Creation(data) when legacy_creation_as_modification is false and
\* to Modification(data) when it is true.
C3_NewWithoutMetadata ==
    (/\ SlotCallLookedUp
     /\ SlotExisting = None
     /\ call.op.k = "New"
     /\ new_slot_metadata = None) =>
        /\ result.kind = "Ok"
        /\ SlotWriteOp = IF call.legacy THEN Modification(SlotData)
                         ELSE Creation(SlotData)

\* The compatibility switch turned the creation of a non-empty value into a
\* modification.
C3_Witness ==
    /\ SlotCallLookedUp
    /\ SlotExisting = None
    /\ call.op.k = "New"
    /\ SlotData # <<>>
    /\ new_slot_metadata = None
    /\ call.legacy
    /\ result.kind = "Ok"
    /\ SlotWriteOp = Modification(SlotData)

\* C4, as claimed: every converter constructed with is_storage_slot_metadata_enabled
\* converts New(data) on a slot reported non-existent to CreationWithMetadata(data, m),
\* m having deposit 0 and the time read from the clock at construction.
C4_EnabledAlwaysStamps ==
    (/\ SlotCallLookedUp
     /\ SlotExisting = None
     /\ call.op.k = "New"
     /\ enabled) =>
        /\ result.kind = "Ok"
        /\ SlotWriteOp.op = "CreationWithMetadata"
        /\ SlotWriteOp.data = SlotData
        /\ SlotWriteOp.metadata.deposit = 0
        /\ fetched[1] # None
        /\ SlotWriteOp.metadata.creation_time_usecs = fetched[1][1]

\* C4, amended: a converter constructed with is_storage_slot_metadata_enabled while
\* the on-chain clock is configured converts New(data) on a slot reported
\* non-existent to CreationWithMetadata(data, m), m having deposit 0 and the time read
\* from the clock at construction, for both values of the compatibility switch.
C4_EnabledWithClockStamps ==
    (/\ SlotCallLookedUp
     /\ SlotExisting = None
     /\ call.op.k = "New"
     /\ enabled
     /\ fetched[1] # None) =>
        result = Ok(IF call.fn = "convert_resource"
                    THEN <<CreationWithMetadata(SlotData,
                               StateValueMetadata(0, fetched[1][1])), call.op.data[2]>>
                    ELSE CreationWithMetadata(SlotData,
                               StateValueMetadata(0, fetched[1][1])))

\* A converter constructed at the latest clock reading, with the compatibility
\* switch on, stamped a new slot.
C4_Witness ==
    /\ SlotCallLookedUp
    /\ SlotExisting = None
    /\ call.op.k = "New"
    /\ call.legacy
    /\ enabled
    /\ fetched = Some(Some(MaxClock))
    /\ result.kind = "Ok"
    /\ SlotWriteOp.op = "CreationWithMetadata"
    /\ SlotWriteOp.metadata = StateValueMetadata(0, MaxClock)


\* A call of convert_resource_group_v1, its batch and the resolver's answers.
GroupCall == call.fn = "convert_resource_group_v1"
Batch == call.group_changes
GroupMetadata == call.remote.metadata
PreSize == call.remote.resource_group_size.val
PrevSize(tag) == call.remote.resource_size_in_group[tag].val
\* The resolver answered the previous-size query for the tag.
PrevSizeKnown(tag) ==
    /\ tag \in DOMAIN call.remote.resource_size_in_group
    /\ call.remote.resource_size_in_group[tag].kind = "Ok"

\* Over exact integers: what a tag takes from the group's size and what it adds.
Removed(tag) ==
    IF Batch[tag].k \in {"Modify", "Delete"} THEN TagSize(tag) + PrevSize(tag) ELSE 0
Added(tag) ==
    IF Batch[tag].k \in {"New", "Modify"} THEN TagSize(tag) + Len(Batch[tag].data[1])
    ELSE 0

RECURSIVE SumRemoved(_)
SumRemoved(S) ==
    IF S = {} THEN 0
    ELSE LET t == CHOOSE u \in S : TRUE IN Removed(t) + SumRemoved(S \ {t})

RECURSIVE SumAdded(_)
SumAdded(S) ==
    IF S = {} THEN 0
    ELSE LET t == CHOOSE u \in S : TRUE IN Added(t) + SumAdded(S \ {t})

\* C5: whenever convert_resource_group_v1 succeeds, the post-size it reports is,
\* over exact integers, pre-size minus the (tag size + previous payload size) of the
\* Modify and Delete tags plus the (tag size + new payload length) of the New and
\* Modify tags.
C5_PostSizeIsExactFormula ==
    (GroupCall /\ result.kind = "Ok") =>
        result.val.group_size =
            PreSize - SumRemoved(DOMAIN Batch) + SumAdded(DOMAIN Batch)

\* The kind of a write op, with or without metadata.
Shape(write_op) ==
    IF write_op.op \in {"Creation", "CreationWithMetadata"} THEN "Creation"
    ELSE IF write_op.op \in {"Modification", "ModificationWithMetadata"}
    THEN "Modification"
    ELSE "Deletion"

\* The kind the sizes of a group call ask for.
SizeShape ==
    IF post_size[1] = 0 THEN "Deletion"
    ELSE IF PreSize = 0 THEN "Creation"
    ELSE "Modification"

\* A group call whose fold ran to its end and whose metadata lookup succeeded.
GroupFolded == GroupCall /\ post_size # None /\ GroupMetadata.kind = "Ok"

\* C6, as claimed: in all eight combinations of pre-size zero or not, post-size zero
\* or not and the existing slot's metadata present or absent,
\* convert_resource_group_v1 returns a slot-level op that is Deletion-shaped when
\* post-size is 0, Creation-shaped when pre-size is 0 and post-size is not, and
\* Modification-shaped otherwise.
C6_KindInAllEightCombinations ==
    (GroupFolded /\ GroupMetadata.val # None) =>
        /\ result.kind = "Ok"
        /\ Shape(result.val.metadata_op) = SizeShape

\* C6, amended: in each of these combinations convert_resource_group_v1 returns a
\* slot-level op of that kind, unless the kind contradicts the slot's reported
\* existence (Creation-shaped on a slot reported existing, Deletion- or
\* Modification-shaped on a slot reported non-existent): then it returns
\* SPECULATIVE_EXECUTION_ABORT_ERROR.
C6_KindUnlessContradiction ==
    GroupFolded =>
        IF (GroupMetadata.val # None) = (SizeShape = "Creation")
        THEN result = Err(SPECULATIVE_EXECUTION_ABORT_ERROR)
        ELSE /\ result.kind = "Ok"
             /\ Shape(result.val.metadata_op) = SizeShape

\* A batch emptied a group that carries metadata: the slot-level op is a deletion.
C6_Witness ==
    /\ GroupFolded
    /\ GroupMetadata.val = Some(Some(raw_metadata(100)))
    /\ PreSize > 0
    /\ post_size[1] = 0
    /\ DOMAIN Batch # {}
    /\ result.kind = "Ok"
    /\ result.val.metadata_op = DeletionWithMetadata(raw_metadata(100))

\* C7: if for a Modify or Delete tag (previous payload size + tag size) exceeds the
\* running total at that point of the fold, convert_resource_group_v1 returns
\* SPECULATIVE_EXECUTION_ABORT_ERROR (no clamping, no wrapping, no GroupWrite).
C7_UnderflowIsSpeculativeAbort ==
    GroupCall =>
        \A i \in DOMAIN trace :
            LET tag == trace[i].tag
            IN  (/\ Batch[tag].k \in {"Modify", "Delete"}
                 /\ PrevSizeKnown(tag)
                 /\ PrevSize(tag) + TagSize(tag) > trace[i].cur_size) =>
                    result = Err(SPECULATIVE_EXECUTION_ABORT_ERROR)

\* The running total of a step once the tag's previous size is taken off, when the
\* step gets that far without a fault.
AfterSub(i) ==
    LET tag == trace[i].tag
    IN  IF Batch[tag].k = "New" THEN Some(trace[i].cur_size)
        ELSE IF /\ PrevSizeKnown(tag)
                /\ PrevSize(tag) + TagSize(tag) <= trace[i].cur_size
        THEN Some(trace[i].cur_size - (PrevSize(tag) + TagSize(tag)))
        ELSE None

\* C8: no sum of the fold wraps or panics: whenever previous payload size + tag
\* size, new payload length + tag size, or running total + added size exceeds the
\* u64 maximum, convert_resource_group_v1 returns SPECULATIVE_EXECUTION_ABORT_ERROR.
C8_OverflowIsSpeculativeAbort ==
    GroupCall =>
        \A i \in DOMAIN trace :
            LET tag == trace[i].tag
            IN  /\ (/\ Batch[tag].k \in {"Modify", "Delete"}
                    /\ PrevSizeKnown(tag)
                    /\ PrevSize(tag) + TagSize(tag) > U64Max) =>
                       result = Err(SPECULATIVE_EXECUTION_ABORT_ERROR)
                /\ (/\ Batch[tag].k \in {"New", "Modify"}
                    /\ call.remote.tag_serializes[tag]
                    /\ AfterSub(i) # None
                    /\ \/ Len(Batch[tag].data[1]) + TagSize(tag) > U64Max
                       \/ AfterSub(i)[1] + Len(Batch[tag].data[1]) + TagSize(tag)
                              > U64Max) =>
                       result = Err(SPECULATIVE_EXECUTION_ABORT_ERROR)

\* The metadata-free op of an effect, with the effect's layout.
PlainOp(move_storage_op) ==
    IF move_storage_op.k = "Delete" THEN <<Deletion, None>>
    ELSE IF move_storage_op.k = "Modify"
    THEN <<Modification(move_storage_op.data[1]), move_storage_op.data[2]>>
    ELSE <<Creation(move_storage_op.data[1]), move_storage_op.data[2]>>

\* C9: when convert_resource_group_v1 succeeds, the per-tag mapping has exactly the
\* batch's tags as keys and maps each to the metadata-free op of its effect (Delete
\* to Deletion, Modify(bytes) to Modification(bytes), New(bytes) to Creation(bytes))
\* with the effect's layout, whatever the group's or the converter's metadata.
C9_InnerOpsAreLegacyOpsOfBatch ==
    (GroupCall /\ result.kind = "Ok") =>
        /\ DOMAIN result.val.inner_ops = DOMAIN Batch
        /\ \A tag \in DOMAIN Batch :
              /\ result.val.inner_ops[tag] = PlainOp(Batch[tag])
              /\ result.val.inner_ops[tag][1].op \in
                    {"Deletion", "Modification", "Creation"}

\* A converter stamping new slots converted, on a group carrying metadata, a batch
\* that modifies one tag and creates the other with a layout.
C9_Witness ==
    /\ GroupCall
    /\ result.kind = "Ok"
    /\ DOMAIN Batch = Tags
    /\ Batch[1].k = "Modify"
    /\ Batch[2].k = "New"
    /\ Batch[2].data = <<Payload(1), Some("layout")>>
    /\ GroupMetadata.val = Some(Some(raw_metadata(100)))
    /\ new_slot_metadata # None
    /\ result.val.inner_ops[2] = <<Creation(Payload(1)), Some("layout")>>

\* C10: an empty batch on an existing group whose reported size is S succeeds with
\* post-size S and an empty per-tag mapping, for every S.
C10_EmptyBatchKeepsSize ==
    (/\ GroupCall
     /\ DOMAIN Batch = {}
     /\ GroupMetadata.kind = "Ok"
     /\ GroupMetadata.val # None
     /\ call.remote.resource_group_size.kind = "Ok") =>
        /\ result.kind = "Ok"
        /\ result.val.group_size = PreSize
        /\ DOMAIN result.val.inner_ops = {}

\* An empty batch was converted on an existing group of size 0.
C10_Witness ==
    /\ GroupCall
    /\ DOMAIN Batch = {}
    /\ GroupMetadata.kind = "Ok"
    /\ GroupMetadata.val # None
    /\ call.remote.resource_group_size = Ok(0)
    /\ result.kind = "Ok"
    /\ result.val.group_size = 0

\* A group call that succeeded on a group slot carrying metadata.
GroupKeptMetadata ==
    /\ GroupCall
    /\ result.kind = "Ok"
    /\ GroupMetadata.val # None
    /\ GroupMetadata.val[1] # None

\* C11: when the group slot carries metadata m and convert_resource_group_v1
\* succeeds, the slot-level op is a ModificationWithMetadata carrying m when
\* pre-size and post-size are both nonzero and DeletionWithMetadata(m), without
\* bytes, when post-size is 0; it never carries the converter's new-slot metadata.
C11_GroupSlotKeepsItsMetadata ==
    GroupKeptMetadata =>
        LET m == GroupMetadata.val[1][1]
            slot_op == result.val.metadata_op
        IN  /\ IF result.val.group_size = 0
               THEN slot_op = DeletionWithMetadata(m) /\ "data" \notin DOMAIN slot_op
               ELSE /\ PreSize # 0
                    /\ slot_op.op = "ModificationWithMetadata"
                    /\ slot_op.metadata = m
            /\ new_slot_metadata # None => slot_op.metadata # new_slot_metadata[1]

\* A converter stamping new slots converted a batch of New tags only on a group
\* carrying metadata: the slot-level op carries the group's metadata.
C11_Witness ==
    /\ GroupKeptMetadata
    /\ new_slot_metadata # None
    /\ DOMAIN Batch = Tags
    /\ \A tag \in Tags : Batch[tag].k = "New"
    /\ result.val.metadata_op.op = "ModificationWithMetadata"
    /\ result.val.metadata_op.metadata = raw_metadata(100)

\* A lookup of the group call failed, or a tag it reached failed to serialize: the
\* group slot's metadata lookup, the group size query, a previous-size query it
\* issued.
GroupLookupFailed ==
    \/ GroupMetadata.kind # "Ok"
    \/ call.remote.resource_group_size.kind # "Ok"
    \/ \E i \in DOMAIN queried :
           call.remote.resource_size_in_group[queried[i]].kind # "Ok"
    \/ \E i \in DOMAIN trace : ~call.remote.tag_serializes[trace[i].tag]

\* C12: in convert_resource_group_v1, whenever a resolver lookup fails (the group
\* slot's metadata, the group size, a tag's previous size) or a tag fails to
\* serialize, the call returns an error that is not
\* SPECULATIVE_EXECUTION_ABORT_ERROR, whatever the batch and the other answers.
C12_LookupFailureIsFatal ==
    (GroupCall /\ GroupLookupFailed) =>
        /\ result.kind = "Err"
        /\ result.code # SPECULATIVE_EXECUTION_ABORT_ERROR

\* C13: in convert_module, convert_aggregator and convert_resource a failed metadata
\* lookup yields STORAGE_ERROR for every effect and both values of the
\* compatibility switch, never a speculative abort.
C13_SlotLookupFailureIsStorageError ==
    (call.fn \in SlotFns /\ call.metadata_result.kind # "Ok") =>
        result = Err(STORAGE_ERROR)

\* The lookup failed for a Delete given to convert_resource with the compatibility
\* switch on, by a converter stamping new slots.
C13_Witness ==
    /\ call.fn = "convert_resource"
    /\ call.metadata_result = LookupErr
    /\ call.op = OpDelete
    /\ call.legacy
    /\ new_slot_metadata # None
    /\ result = Err(STORAGE_ERROR)

\* A call of convert_aggregator_modification.
AggregatorCall == call.fn = "convert_aggregator_modification"

\* C14: convert_aggregator_modification never fails when the metadata lookup
\* succeeds: on a non-existent slot it returns Modification(serialized value) when
\* the converter has no new-slot metadata and CreationWithMetadata(serialized value,
\* new-slot metadata) when it has one; on an existing slot Modification without
\* metadata and ModificationWithMetadata(m) with m.  It never returns Creation,
\* Deletion or DeletionWithMetadata.
C14_AggregatorModificationOps ==
    (AggregatorCall /\ call.metadata_result.kind = "Ok") =>
        LET existing == call.metadata_result.val
            data == serialize(call.value)
        IN  /\ result.kind = "Ok"
            /\ result.val.op \notin {"Creation", "Deletion", "DeletionWithMetadata"}
            /\ result.val =
                  IF existing = None
                  THEN IF new_slot_metadata = None THEN Modification(data)
                       ELSE CreationWithMetadata(data, new_slot_metadata[1])
                  ELSE IF existing[1] = None THEN Modification(data)
                       ELSE ModificationWithMetadata(data, existing[1][1])

\* A converter without new-slot metadata wrote the largest value to a non-existent
\* aggregator slot: a Modification of its encoding.
C14_Witness ==
    /\ AggregatorCall
    /\ call.metadata_result = Ok(None)
    /\ call.value = U128Max
    /\ new_slot_metadata = None
    /\ result = Ok(Modification(<<U64Max, U64Max>>))

\* C15: when the aggregator metadata lookup fails, convert_aggregator_modification
\* returns SPECULATIVE_EXECUTION_ABORT_ERROR, not STORAGE_ERROR, for every value and
\* every configuration of the converter.
C15_AggregatorLookupFailureIsSpeculative ==
    (AggregatorCall /\ call.metadata_result.kind # "Ok") =>
        result = Err(SPECULATIVE_EXECUTION_ABORT_ERROR)

\* The lookup failed for a converter stamping new slots.
C15_Witness ==
    /\ AggregatorCall
    /\ call.metadata_result = LookupErr
    /\ call.value > 0
    /\ new_slot_metadata # None
    /\ result = Err(SPECULATIVE_EXECUTION_ABORT_ERROR)

\* The converter was constructed with metadata enabled over a resolver without an
\* on-chain clock.
EnabledWithoutClock == enabled /\ fetched = Some(None)

\* C16: a converter constructed with metadata enabled while no on-chain clock is
\* configured stamps no metadata on new slots: a new slot or a new resource group
\* gets the op without metadata a converter with the feature disabled gives it.
C16_NoClockNoStamp ==
    EnabledWithoutClock =>
        /\ new_slot_metadata = None
        /\ (SlotCallLookedUp /\ SlotExisting = None /\ call.op.k = "New") =>
               /\ result.kind = "Ok"
               /\ SlotWriteOp = IF call.legacy THEN Modification(SlotData)
                                ELSE Creation(SlotData)
        /\ (AggregatorCall /\ call.metadata_result = Ok(None)) =>
               /\ result.kind = "Ok"
               /\ result.val.op = "Modification"
        /\ (GroupCall /\ result.kind = "Ok" /\ GroupMetadata.val = None) =>
               /\ result.val.metadata_op.op = "Creation"
               /\ "metadata" \notin DOMAIN result.val.metadata_op

\* size_computation_new_group: a converter with metadata enabled and no clock
\* created a group with one New tag; the slot-level op has no metadata.
C16_Witness ==
    /\ EnabledWithoutClock
    /\ GroupCall
    /\ GroupMetadata = Ok(None)
    /\ call.remote.resource_group_size = Ok(0)
    /\ DOMAIN Batch = {1}
    /\ Batch[1].k = "New"
    /\ result.kind = "Ok"
    /\ result.val.metadata_op.op = "Creation"

\* C17: convert_resource_group_v1 asks the resolver for the previous size only of
\* tags that are in the batch with a Modify or Delete effect, at most once per tag,
\* never of a New tag or of a tag absent from the batch; the other entry points
\* never ask.
C17_PreviousSizeQueriedOnlyForWrittenTags ==
    IF GroupCall
    THEN /\ \A i \in DOMAIN queried :
               /\ queried[i] \in DOMAIN Batch
               /\ Batch[queried[i]].k \in {"Modify", "Delete"}
         /\ \A i, j \in DOMAIN queried : queried[i] = queried[j] => i = j
    ELSE queried = <<>>

\* A batch creating one tag and modifying the other succeeded: only the modified
\* tag's previous size was asked for.
C17_Witness ==
    /\ GroupCall
    /\ DOMAIN Batch = Tags
    /\ Batch[1].k = "New"
    /\ Batch[2].k = "Modify"
    /\ result.kind = "Ok"
    /\ queried = <<2>>

\* The converter that made the call that has returned, and the write ops the call
\* produced: the op of a slot, or the slot-level op and the per-tag ops of a group.
Caller == converters[call.session]
ProducedOps ==
    IF result.kind # "Ok" THEN {}
    ELSE IF call.fn = "convert_resource_group_v1"
    THEN {result.val.metadata_op}
             \cup {result.val.inner_ops[tag][1] : tag \in DOMAIN result.val.inner_ops}
    ELSE IF call.fn = "convert_resource" THEN {result.val[1]}
    ELSE {result.val}

\* C19: a converter reads the on-chain clock at construction only and its new-slot
\* metadata never changes afterwards: after any sequence of conversions, by any
\* session and of any entry point, while the resolver's clock goes on changing,
\* the new-slot metadata of every converter is the one computed at its construction
\* and every CreationWithMetadata a converter returns carries deposit 0 and the
\* time read at its construction.
C19_TemplateFixedAtConstruction ==
    /\ \A s \in Sessions :
          (converters[s].built /\ converters[s].new_slot_metadata # None) =>
              /\ converters[s].enabled
              /\ converters[s].fetched[1] # None
              /\ converters[s].new_slot_metadata =
                     Some(StateValueMetadata(0, converters[s].fetched[1][1]))
    /\ pc = "returned" =>
          \A write_op \in ProducedOps :
              write_op.op = "CreationWithMetadata" =>
                  /\ Caller.fetched # None
                  /\ Caller.fetched[1] # None
                  /\ write_op.metadata = StateValueMetadata(0, Caller.fetched[1][1])

\* A converter constructed at time 1 stamped a new group after the clock moved to
\* MaxClock and another session constructed its converter then.
C19_Witness ==
    /\ pc = "returned"
    /\ call.fn = "convert_resource_group_v1"
    /\ call.session = 1
    /\ converters[1].fetched = Some(Some(1))
    /\ clock = Some(MaxClock)
    /\ converters[2].built
    /\ converters[2].fetched = Some(Some(MaxClock))
    /\ result.kind = "Ok"
    /\ result.val.metadata_op.op = "CreationWithMetadata"
    /\ result.val.metadata_op.metadata = StateValueMetadata(0, 1)

\* What new() computed for the converter that made the call, from what it was given
\* and read at its construction.
OwnTemplate ==
    NewSlotMetadata(Caller.enabled,
                    IF Caller.fetched = None THEN None ELSE Caller.fetched[1])

\* The call returned what it returns on a converter constructed alike and run
\* alone.
ReturnsAsAlone ==
    pc = "returned" =>
        [result |-> result, queried |-> queried, trace |-> trace,
         post_size |-> post_size] \in Run(OwnTemplate, call)

\* A conversion writes neither the converters nor the resolver's clock.
ConversionWritesNothing ==
    (pc = "ready" /\ pc' = "returned") => UNCHANGED <<converters, clock>>

\* C20: conversions of different sessions do not interfere: in every interleaving
\* of the calls of several converters each call returns what it returns when run
\* alone, and a conversion writes no state of another session nor of its own
\* converter.
C20_SessionsDoNotInterfere == []ReturnsAsAlone /\ [][ConversionWritesNothing]_vars

\* With the converter of session 1 stamping new slots, session 2, whose converter
\* has no new-slot metadata, created a slot: a Creation without metadata.
C20_Witness ==
    /\ pc = "returned"
    /\ call.session = 2
    /\ converters[1].built
    /\ converters[1].new_slot_metadata # None
    /\ converters[2].new_slot_metadata = None
    /\ call.fn = "convert_module"
    /\ call.op = OpNew(Payload(1))
    /\ ~call.legacy
    /\ result = Ok(Creation(Payload(1)))

\* A sender limit of the sanitized config exceeds its receiver counterpart.
SenderExceedsReceiver ==
    LET c == call.quorum_store
    IN  \/ c.sender_max_batch_txns > c.receiver_max_batch_txns
        \/ c.sender_max_batch_bytes > c.receiver_max_batch_bytes
        \/ c.sender_max_total_txns > c.receiver_max_total_txns
        \/ c.sender_max_total_bytes > c.receiver_max_total_bytes

\* A per-batch limit of the sanitized config exceeds its total counterpart.
BatchExceedsTotal ==
    LET c == call.quorum_store
    IN  \/ c.sender_max_batch_txns > c.sender_max_total_txns
        \/ c.sender_max_batch_bytes > c.sender_max_total_bytes
        \/ c.receiver_max_batch_txns > c.receiver_max_total_txns
        \/ c.receiver_max_batch_bytes > c.receiver_max_total_bytes

\* C21: QuorumStoreConfig::sanitize returns ConfigSanitizerFailed if and only if a
\* sender limit exceeds its receiver counterpart or a per-batch limit exceeds its
\* total counterpart, and Ok otherwise, for every node type and chain id; the
\* default configuration passes.
C21_SanitizeFailsIffLimitExceeded ==
    call.fn = "sanitize" =>
        /\ IF SenderExceedsReceiver \/ BatchExceedsTotal
           THEN result.kind = "Err" /\ result.code = "ConfigSanitizerFailed"
           ELSE result = Ok(<<>>)
        /\ call.quorum_store = DefaultQuorumStoreConfig => result = Ok(<<>>)

\* A config whose sender limits equal the receiver's, with only the receiver's
\* per-batch bytes above its total, was refused on a public fullnode without
\* chain id.
C21_Witness ==
    /\ call.fn = "sanitize"
    /\ ~SenderExceedsReceiver
    /\ call.quorum_store.receiver_max_batch_bytes
           > call.quorum_store.receiver_max_total_bytes
    /\ call.quorum_store.sender_max_batch_bytes
           <= call.quorum_store.sender_max_total_bytes
    /\ call.node_type = "PublicFullnode"
    /\ call.chain_id = None
    /\ result.kind = "Err"
    /\ result.message.label = "recv_bytes"

\* C22: LurkMerkleProof::verify returns an error when the proof does not
\* authenticate the element against the expected root hash: with an empty sibling
\* list it succeeds only when expected_root_hash equals element_hash and fails
\* otherwise (e.g. against the accumulator placeholder root).
C22_EmptyProofVerifiesOnlyTheRoot ==
    (call.fn = "verify" /\ call.siblings = <<>>) =>
        IF call.expected_root_hash = call.element_hash
        THEN result.kind = "Ok"
        ELSE result.kind = "Err"

\* Step i of the fold faults on its arithmetic: the tag's subtraction would leave
\* the running total negative, or its addition would take it over the u64 maximum.
StepFaults(i) ==
    LET tag == trace[i].tag
    IN  /\ call.remote.tag_serializes[tag]
        /\ \/ /\ Batch[tag].k \in {"Modify", "Delete"}
              /\ PrevSizeKnown(tag)
              /\ PrevSize(tag) + TagSize(tag) > trace[i].cur_size
           \/ /\ Batch[tag].k \in {"New", "Modify"}
              /\ AfterSub(i) # None
              /\ AfterSub(i)[1] + Len(Batch[tag].data[1]) + TagSize(tag) > U64Max

\* C23: the fold is checked per step in ascending tag order, not on the final sum:
\* convert_resource_group_v1 returns SPECULATIVE_EXECUTION_ABORT_ERROR as soon as
\* the running total after a tag's subtraction would be negative or after a tag's
\* addition would exceed the u64 maximum; the faulting step is the last one and no
\* later tag is queried.
C23_FoldCheckedPerStepInTagOrder ==
    GroupCall =>
        /\ \A i, j \in DOMAIN trace : i < j => trace[i].tag < trace[j].tag
        /\ \A i \in DOMAIN trace :
              StepFaults(i) =>
                  /\ result = Err(SPECULATIVE_EXECUTION_ABORT_ERROR)
                  /\ i = Len(trace)
                  /\ \A q \in DOMAIN queried : queried[q] <= trace[i].tag

\* The kind the sizes of a folded group call ask for contradicts the existence the
\* resolver reported for the group's slot.
SizesContradictExistence ==
    \/ /\ GroupMetadata.val = None
       /\ \/ post_size[1] = 0
          \/ PreSize # 0 /\ post_size[1] # 0
    \/ /\ GroupMetadata.val # None
       /\ PreSize = 0
       /\ post_size[1] # 0

\* C24: with all lookups succeeding and the fold reaching its end,
\* convert_resource_group_v1 returns SPECULATIVE_EXECUTION_ABORT_ERROR exactly when
\* post-size is 0 or pre-size and post-size are both nonzero while the slot is
\* reported non-existent, or pre-size is 0 and post-size is not while the slot is
\* reported existing; in every other case it returns a GroupWrite with the
\* post-size and an op per tag of the batch.
C24_SpeculativeAbortIffSizesContradict ==
    GroupFolded =>
        IF SizesContradictExistence
        THEN result = Err(SPECULATIVE_EXECUTION_ABORT_ERROR)
        ELSE /\ result.kind = "Ok"
             /\ result.val.group_size = post_size[1]
             /\ DOMAIN result.val.inner_ops = DOMAIN Batch
             /\ result.val.metadata_op.op \in WriteOpKinds

\* An empty batch against a group reported non-existent was refused.
C24_Witness ==
    /\ GroupFolded
    /\ DOMAIN Batch = {}
    /\ GroupMetadata.val = None
    /\ PreSize = 0
    /\ post_size = Some(0)
    /\ result = Err(SPECULATIVE_EXECUTION_ABORT_ERROR)

\* What the slot call that returned gives with the other value of the switch.
WithSwitchFlipped ==
    IF call.fn = "convert_resource"
    THEN convert_resource(new_slot_metadata, call.metadata_result, call.op,
                          ~call.legacy)
    ELSE convert_impl(new_slot_metadata, call.metadata_result, call.op, ~call.legacy)

\* The one case where the switch matters: New on a slot reported non-existent, on a
\* converter without new-slot metadata.
SwitchMatters ==
    /\ SlotCallLookedUp
    /\ SlotExisting = None
    /\ call.op.k = "New"
    /\ new_slot_metadata = None

\* C25: legacy_creation_as_modification changes the result of convert_module,
\* convert_aggregator and convert_resource only for New on a non-existent slot with
\* a converter that has no new-slot metadata; in every other case (new-slot
\* metadata present, Modify, Delete, any error) both values give the same result.
\* convert_resource_group_v1 derives its slot-level op with the switch off: a newly
\* created group is a Creation (with the converter's metadata or without), never a
\* Modification.
C25_SwitchOnlyMattersForPlainCreation ==
    /\ call.fn \in SlotFns =>
          IF SwitchMatters THEN result # WithSwitchFlipped
          ELSE result = WithSwitchFlipped
    /\ (GroupCall /\ result.kind = "Ok" /\ GroupMetadata.val = None) =>
          result.val.metadata_op.op =
              IF new_slot_metadata = None THEN "Creation" ELSE "CreationWithMetadata"

\* With the switch on, a converter stamping new slots created a resource: a
\* CreationWithMetadata, as with the switch off.
C25_Witness ==
    /\ call.fn = "convert_resource"
    /\ call.legacy
    /\ call.metadata_result = Ok(None)
    /\ call.op.k = "New"
    /\ new_slot_metadata # None
    /\ result.kind = "Ok"
    /\ result.val[1].op = "CreationWithMetadata"

=============================================================================
